---------------------------- MODULE Spec2Model ----------------------------
(***************************************************************************)
(* A model of minecraft_backup.py: the BackupScheduler decision logic, the *)
(* two directory scanners, and the driving loop start_auto_backup running  *)
(* against the watchdog notifier thread.                                   *)
(*                                                                         *)
(* Instants of the scheduler are integers (seconds on the wall clock); a   *)
(* timedelta is an integer number of seconds.  A field holding Python's    *)
(* None is the empty tuple, a field holding a datetime t is <<t>>.         *)
(***************************************************************************)
EXTENDS Integers, Sequences, FiniteSets, TLC

VARIABLES
    last_modification_time,  \* BackupScheduler.last_modification_time
    last_backup_time,        \* BackupScheduler.last_backup_time
    backup_interval,         \* BackupScheduler.backup_interval
    result,                  \* the latest call made on the scheduler and what it returned
    backup_children,         \* names of the immediate children of backup_path
    backup_scan,             \* outcome of get_last_backup_datetime(backup_path)
    source_tree,             \* the entries below minecraft_directory
    utc_offset,              \* local time minus UTC on this machine, in seconds
    change_scan,             \* outcome of get_last_change_datetime(minecraft_directory)
    now,                     \* the wall clock, datetime.datetime.now()
    pc,                      \* where the thread running start_auto_backup stands
    call,                    \* the scheduler query that thread is evaluating
    arg,                     \* that query's argument (upon / last_checked)
    needed,                  \* what needs_backup returned to the loop
    delay,                   \* what next_check_time returned to the loop
    wake_at,                 \* the instant before which time.sleep does not return
    watcher_pc,              \* where the observer thread stands in on_modified
    watcher_time,            \* on_modified's local variable time
    lm_reads,                \* history: values of last_modification_time read by the current evaluation
    mod_in_sleep,            \* history: first instant, not before the current sleep began, that on_modified stored during it
    backed_up,               \* history: the loop has completed a backup
    mod_since_backup,        \* history: on_modified has written since the last backup was recorded
    copy_start               \* history: the instant do_backup was last entered

schedVars == <<last_modification_time, last_backup_time, backup_interval, result>>
backupScanVars == <<backup_children, backup_scan>>
changeScanVars == <<source_tree, utc_offset, change_scan>>
scanVars == <<backupScanVars, changeScanVars>>
clockVars == <<now>>
loopVars == <<pc, call, arg, needed, delay, wake_at>>
watcherVars == <<watcher_pc, watcher_time>>
historyVars == <<lm_reads, mod_in_sleep, backed_up, mod_since_backup, copy_start>>
runVars == <<clockVars, loopVars, watcherVars, historyVars>>
vars == <<schedVars, backupScanVars, changeScanVars, runVars>>

(***************************************************************************)
(* Bounds of the model.                                                    *)
(***************************************************************************)
\* Instants handed to the scheduler range over 0..MaxTime.
MaxTime == 8
\* The configured intervals tried: a short one (below the settle window)
\* and a long one (above it).
IntervalShort == 3
IntervalLong == 6

\* The wall clock of a run of start_auto_backup goes from 0 to MaxClock.
MaxClock == 6
\* The startup scans return instants up to MaxSeedAge + 1 seconds before the start.
MaxSeedAge == 6
\* A backup directory holds at most MaxChildren entries.
MaxChildren == 2
\* File timestamps lie within MaxMtimeHours hours of 1980-01-01 00:00:00 UTC.
MaxMtimeHours == 1

Instants == 0..MaxTime
Intervals == {IntervalShort, IntervalLong}

(***************************************************************************)
(* Optional datetimes.                                                     *)
(***************************************************************************)
None == << >>
Some(t) == <<t>>
Val(x) == x[1]
\* Python truth value of a field: None is false, every datetime is true.
Truthy(x) == x # None

(***************************************************************************)
(* BackupScheduler                                                         *)
(***************************************************************************)
DENOUNCEMENT_TIME == 5

no_backup_ever(lb) == ~Truthy(lb)

no_recorded_modification(lm) == ~Truthy(lm)

\* Mutant: the margin counts as passed at exactly DENOUNCEMENT_TIME.
MutSafeMarginInclusive(lm, upon) ==
    Val(lm) + DENOUNCEMENT_TIME <= upon

\* strict: exactly DENOUNCEMENT_TIME after the modification is not yet safe
is_safe_margin_passed_since_last_modification(lm, upon) ==
    Val(lm) + DENOUNCEMENT_TIME < upon

\* Mutant: a backup made at the very instant of the modification does not cover it.
MutBackupOlderInclusive(lb, lm) ==
    Val(lb) <= Val(lm)

\* line 127: self.last_backup_time < self.last_modification_time
backup_older_than_modification(lb, lm) ==
    Val(lb) < Val(lm)

updated_since_last_backup(lm, lb) ==
    IF no_recorded_modification(lm) THEN FALSE
    ELSE IF no_backup_ever(lb) THEN TRUE
    ELSE backup_older_than_modification(lb, lm)

\* Mutant: the first-ever backup waits for the margin like any other.
MutNeedsBackupNoFirstShortcut(lm, lb, upon) ==
    IF no_recorded_modification(lm) THEN FALSE
    ELSE IF updated_since_last_backup(lm, lb)
         THEN is_safe_margin_passed_since_last_modification(lm, upon)
    ELSE FALSE

needs_backup(lm, lb, upon) ==
    IF no_recorded_modification(lm) THEN FALSE
    ELSE IF no_backup_ever(lb) THEN TRUE
    ELSE IF updated_since_last_backup(lm, lb)
         THEN is_safe_margin_passed_since_last_modification(lm, upon)
    ELSE FALSE

\* Mutant: the full margin, whatever part of it has already elapsed.
MutWaitFullMargin(lm, last_checked) ==
    DENOUNCEMENT_TIME

\* Mutant: the subtraction the other way round, elapsed time less the margin.
MutWaitElapsedLessMargin(lm, last_checked) ==
    (last_checked - Val(lm)) - DENOUNCEMENT_TIME

next_check_time_after_denouncement_wait(lm, last_checked) ==
    DENOUNCEMENT_TIME - (last_checked - Val(lm))

\* Mutant: the remaining margin whenever a change is pending, elapsed or not.
MutNextCheckTimeNoMarginTest(lm, lb, interval, last_checked) ==
    IF updated_since_last_backup(lm, lb)
    THEN next_check_time_after_denouncement_wait(lm, last_checked)
    ELSE interval

\* "and" short-circuits: the margin test runs only when a change is pending
next_check_time(lm, lb, interval, last_checked) ==
    IF updated_since_last_backup(lm, lb)
       /\ ~is_safe_margin_passed_since_last_modification(lm, last_checked)
    THEN next_check_time_after_denouncement_wait(lm, last_checked)
    ELSE interval

(***************************************************************************)
(* Text: a name is a sequence of one-character strings.                    *)
(***************************************************************************)
DigitChars == <<"0", "1", "2", "3", "4", "5", "6", "7", "8", "9">>
IsDigit(c) == \E i \in 1..10 : DigitChars[i] = c
DigitVal(c) == (CHOOSE i \in 1..10 : DigitChars[i] = c) - 1

\* int() of a string of digits
RECURSIVE int(_)
int(s) ==
    IF Len(s) = 0 THEN 0
    ELSE int(SubSeq(s, 1, Len(s) - 1)) * 10 + DigitVal(s[Len(s)])

\* a number as w zero-padded decimal digits
RECURSIVE Pad(_, _)
Pad(n, w) ==
    IF w = 0 THEN << >>
    ELSE Pad(n \div 10, w - 1) \o <<DigitChars[(n % 10) + 1]>>

(***************************************************************************)
(* datetime.datetime values of the backup scanner: <<year, month, day,     *)
(* hour, minute, second>>, ordered as Python orders naive datetimes.       *)
(***************************************************************************)
RECURSIVE LexLess(_, _)
LexLess(a, b) ==
    IF Len(a) = 0 \/ Len(b) = 0 THEN Len(a) < Len(b)
    ELSE IF Head(a) # Head(b) THEN Head(a) < Head(b)
    ELSE LexLess(Tail(a), Tail(b))

DatetimeLess(a, b) == LexLess(a, b)

IsLeap(y) == y % 4 = 0 /\ (y % 100 # 0 \/ y % 400 = 0)

DaysInMonth(y, m) ==
    IF m = 2 THEN (IF IsLeap(y) THEN 29 ELSE 28)
    ELSE IF m \in {4, 6, 9, 11} THEN 30
    ELSE 31

\* datetime.datetime(1980, 1, 1, 0, 0, 0)
SentinelDatetime == <<1980, 1, 1, 0, 0, 0>>

\* current_time.strftime("%Y%m%d_%H%M%S")
strftime(dt) ==
    Pad(dt[1], 4) \o Pad(dt[2], 2) \o Pad(dt[3], 2) \o <<"_">>
        \o Pad(dt[4], 2) \o Pad(dt[5], 2) \o Pad(dt[6], 2)

\* The fields strptime reads from a 15-character match of the pattern.
ParsedFields(g) ==
    << int(SubSeq(g, 1, 4)), int(SubSeq(g, 5, 6)), int(SubSeq(g, 7, 8)),
       int(SubSeq(g, 10, 11)), int(SubSeq(g, 12, 13)), int(SubSeq(g, 14, 15)) >>

\* datetime.datetime.strptime(g, '%Y%m%d_%H%M%S') returns a datetime exactly
\* for the fields of a real date and time of day; otherwise it raises ValueError.
StrptimeAccepts(g) ==
    LET f == ParsedFields(g) IN
    /\ f[1] >= 1
    /\ f[2] >= 1 /\ f[2] <= 12
    /\ f[3] >= 1 /\ f[3] <= DaysInMonth(f[1], f[2])
    /\ f[4] <= 23
    /\ f[5] <= 59
    /\ f[6] <= 59

ValueError == [raised |-> "ValueError"]
Returned(v) == [raised |-> "no", value |-> v]

strptime(g) ==
    IF StrptimeAccepts(g) THEN Returned(ParsedFields(g)) ELSE ValueError

(***************************************************************************)
(* get_last_backup_datetime                                                *)
(***************************************************************************)
\* 1-based position of the last "." of a name, 0 when it has none (str.rfind)
LastDot(name) ==
    IF \E i \in 1..Len(name) : name[i] = "."
    THEN CHOOSE i \in 1..Len(name) :
            name[i] = "." /\ \A j \in (i + 1)..Len(name) : name[j] # "."
    ELSE 0

\* Path.stem: the name without its last suffix; a leading or a trailing dot
\* starts no suffix.
stem(name) ==
    LET i == LastDot(name) IN
    IF 1 < i /\ i < Len(name) THEN SubSeq(name, 1, i - 1) ELSE name

\* re.match(r'^(\d{8})_(\d{6})$', s) finds a match: "$" also matches just
\* before a newline that ends the string.
re_match(s) ==
    /\ Len(s) \in {15, 16}
    /\ \A i \in 1..8 : IsDigit(s[i])
    /\ s[9] = "_"
    /\ \A i \in 10..15 : IsDigit(s[i])
    /\ Len(s) = 16 => s[16] = "\n"

\* m.group(0)
group0(s) == SubSeq(s, 1, 15)

\* One pass of the loop body over the names not yet visited; an exception
\* raised by strptime ends the call.
RECURSIVE BackupScanLoop(_, _)
BackupScanLoop(last_datetime, names) ==
    IF names = {} THEN Returned(last_datetime)
    ELSE LET name == CHOOSE n \in names : TRUE
             rest == names \ {name}
         IN  IF ~re_match(stem(name)) THEN BackupScanLoop(last_datetime, rest)
             ELSE LET dt == strptime(group0(stem(name))) IN
                  IF dt = ValueError THEN ValueError
                  ELSE IF DatetimeLess(last_datetime, dt.value)
                       THEN BackupScanLoop(dt.value, rest)
                       ELSE BackupScanLoop(last_datetime, rest)

get_last_backup_datetime(children) ==
    BackupScanLoop(SentinelDatetime, children)

\* Field values the sample names are made of: the two backups of the test,
\* the sentinel itself, an instant before it, a leap day, and four that
\* denote no date or no time of day.
SampleFields ==
    { <<2024, 1, 1, 1, 23, 45>>, <<2024, 1, 1, 1, 23, 46>>,
      <<1980, 1, 1, 0, 0, 0>>, <<1979, 12, 31, 23, 59, 59>>,
      <<2024, 2, 29, 0, 0, 0>>,
      <<2023, 2, 29, 0, 0, 0>>, <<2024, 13, 1, 0, 0, 0>>,
      <<2024, 1, 1, 25, 0, 0>>, <<2024, 1, 1, 0, 0, 60>> }

\* What surrounds the 15 characters in a sample name.
Decorate(core, how) ==
    CASE how = "plain"    -> core
      [] how = "suffix"   -> core \o <<".", "b", "a", "k">>
      [] how = "dot"      -> core \o <<".">>
      [] how = "newline"  -> core \o <<"\n">>
      [] how = "prefix"   -> <<"x">> \o core
      [] how = "tail"     -> core \o <<"x">>
      [] how = "dash"     -> [core EXCEPT ![9] = "-"]

Decorations == {"plain", "suffix", "dot", "newline", "prefix", "tail", "dash"}

SampleNames ==
    { Decorate(strftime(f), how) : f \in SampleFields, how \in Decorations }
        \cup { <<"n", "o", "t", "_", "b", "a", "c", "k", "u", "p">> }

\* The subsets of S with at most k elements.
RECURSIVE SubsetsUpTo(_, _)
SubsetsUpTo(S, k) ==
    IF k = 0 THEN { {} }
    ELSE LET smaller == SubsetsUpTo(S, k - 1)
         IN  smaller \cup { c \cup {x} : c \in smaller, x \in S }

NotScanned == [raised |-> "not called"]

NoBackupScan == backup_children = {} /\ backup_scan = NotScanned

BackupScanInit ==
    /\ backup_children \in SubsetsUpTo(SampleNames, MaxChildren)
    /\ backup_scan = NotScanned

CallGetLastBackupDatetime ==
    /\ backup_scan = NotScanned
    /\ backup_scan' = get_last_backup_datetime(backup_children)
    /\ UNCHANGED <<backup_children, schedVars, changeScanVars, runVars>>

(***************************************************************************)
(* get_last_change_datetime.  st_mtime is in seconds since 1970-01-01 UTC; *)
(* the datetimes of this scanner are seconds of local time since           *)
(* 1970-01-01 00:00:00.                                                    *)
(***************************************************************************)
\* datetime.datetime(1980, 1, 1, 0, 0, 0): 3652 days after 1970-01-01
SentinelSeconds == 3652 * 86400

\* datetime.datetime.fromtimestamp(ts): the local time of a timestamp
fromtimestamp(ts) == ts + utc_offset

\* The paths of the sample trees: two entries of the root, and one entry
\* inside the first.
Paths == { <<"dir1">>, <<"dir2">>, <<"dir1", "file1">> }
Parent(p) == SubSeq(p, 1, Len(p) - 1)
Kinds == {"file", "dir", "other"}
Mtimes == { SentinelSeconds + h * 3600 : h \in (0 - MaxMtimeHours)..MaxMtimeHours }
UtcOffsets == { 0 - 3600, 0, 3600 }

\* A tree maps the paths it holds to [kind, st_mtime]; only a directory has entries.
IsTree(t) ==
    \A p \in DOMAIN t :
        Len(p) > 1 => (Parent(p) \in DOMAIN t /\ t[Parent(p)].kind = "dir")

Trees ==
    { t \in UNION { [ps -> [kind : Kinds, st_mtime : Mtimes]] : ps \in SUBSET Paths } :
        IsTree(t) }

\* minecraft_directory.rglob('*'): every entry at every depth
rglob(t) == DOMAIN t

\* p.is_file()
is_file(t, p) == t[p].kind = "file"

RECURSIVE ChangeScanLoop(_, _, _)
ChangeScanLoop(last_change, t, paths) ==
    IF paths = {} THEN last_change
    ELSE LET p == CHOOSE q \in paths : TRUE
             rest == paths \ {p}
         IN  IF is_file(t, p)
             THEN LET dt == fromtimestamp(t[p].st_mtime) IN
                  IF last_change < dt THEN ChangeScanLoop(dt, t, rest)
                  ELSE ChangeScanLoop(last_change, t, rest)
             ELSE ChangeScanLoop(last_change, t, rest)

get_last_change_datetime(t) ==
    Returned(ChangeScanLoop(SentinelSeconds, t, rglob(t)))

NoChangeScan ==
    /\ source_tree = << >>
    /\ utc_offset = 0
    /\ change_scan = NotScanned

ChangeScanInit ==
    /\ source_tree \in Trees
    /\ utc_offset \in UtcOffsets
    /\ change_scan = NotScanned

CallGetLastChangeDatetime ==
    /\ change_scan = NotScanned
    /\ change_scan' = get_last_change_datetime(source_tree)
    /\ UNCHANGED <<source_tree, utc_offset, schedVars, backupScanVars, runVars>>

(***************************************************************************)
(* The scheduler as an object: construction, the two field assignments the *)
(* program makes, and the two queries.                                     *)
(***************************************************************************)
NoCall == [op |-> "none"]

\* BackupScheduler.__init__
NewScheduler ==
    /\ backup_interval \in Intervals
    /\ last_modification_time = None
    /\ last_backup_time = None
    /\ result = NoCall

\* scheduler.last_modification_time = time
SetLastModificationTime(t) ==
    /\ last_modification_time' = Some(t)
    /\ result' = NoCall
    /\ UNCHANGED <<last_backup_time, backup_interval, scanVars, runVars>>

\* scheduler.last_backup_time = time
SetLastBackupTime(t) ==
    /\ last_backup_time' = Some(t)
    /\ result' = NoCall
    /\ UNCHANGED <<last_modification_time, backup_interval, scanVars, runVars>>

\* Mutant: answering that a backup is needed also marks it as made.
MutCallNeedsBackupConsumes(upon) ==
    LET ret == needs_backup(last_modification_time, last_backup_time, upon) IN
    /\ result' = [op |-> "needs_backup", arg |-> upon, ret |-> ret]
    /\ last_backup_time' = IF ret THEN Some(upon) ELSE last_backup_time
    /\ UNCHANGED <<last_modification_time, backup_interval, scanVars, runVars>>

CallNeedsBackup(upon) ==
    /\ result' = [op |-> "needs_backup", arg |-> upon,
                  ret |-> needs_backup(last_modification_time, last_backup_time, upon)]
    /\ UNCHANGED <<last_modification_time, last_backup_time, backup_interval,
                   scanVars, runVars>>

CallNextCheckTime(last_checked) ==
    /\ result' = [op |-> "next_check_time", arg |-> last_checked,
                  ret |-> next_check_time(last_modification_time, last_backup_time,
                                          backup_interval, last_checked)]
    /\ UNCHANGED <<last_modification_time, last_backup_time, backup_interval,
                   scanVars, runVars>>

(***************************************************************************)
(* start_auto_backup: the driving loop on the main thread, and on_modified *)
(* on the observer thread.  Neither takes a lock; the interpreter switches *)
(* threads between any two bytecodes, so each read of                      *)
(* last_modification_time by the loop is a step of its own (reads of       *)
(* last_backup_time, which only the loop writes, ride along with the step  *)
(* they follow).  The clock advances between any two steps.                *)
(***************************************************************************)
\* What the two startup scans return, relative to the clock at startup: one
\* of two instants whose margin had passed before startup (the older stands
\* for the 1980 sentinel too), or the startup instant itself.
\* Mutant: a scan may return an instant later than the clock at startup.
MutSeedInstantsAhead == { 0 - MaxSeedAge - 1, 0, MaxClock + 2 }

SeedInstants == { 0 - MaxSeedAge - 1, 0 - MaxSeedAge, 0 }

\* what a scan returns when it finds nothing: the 1980 sentinel
SeedSentinel == 0 - MaxSeedAge - 1

NoEvaluation == /\ call = "none" /\ arg = 0 /\ needed = FALSE /\ delay = 0

NotRunning ==
    /\ now = 0
    /\ pc = "L145"
    /\ NoEvaluation
    /\ wake_at = 0
    /\ watcher_pc = "not started"
    /\ watcher_time = 0
    /\ lm_reads = {}
    /\ mod_in_sleep = None
    /\ backed_up = FALSE
    /\ mod_since_backup = FALSE
    /\ copy_start = None

\* main() has read the configuration; BackupScheduler(config.backup_interval)
Init == NewScheduler /\ NoBackupScan /\ NoChangeScan /\ NotRunning

\* time passes
Tick ==
    /\ now < MaxClock
    /\ now' = now + 1
    /\ UNCHANGED <<schedVars, loopVars, watcherVars, historyVars, scanVars>>

\* Mutant: last_backup_time is not seeded from the backup directory.
MutStartupNoBackupSeed ==
    /\ pc = "L145"
    /\ \E lm \in SeedInstants : last_modification_time' = Some(lm)
    /\ watcher_pc' = "idle"
    /\ pc' = "L151"
    /\ UNCHANGED <<last_backup_time, backup_interval, result, now, call, arg,
                   needed, delay, wake_at, watcher_time, historyVars, scanVars>>

\* lines 146-148: seed both fields from the scans, start the observer
Startup ==
    /\ pc = "L145"
    /\ \E lm \in SeedInstants, lb \in SeedInstants :
          /\ last_modification_time' = Some(lm)
          /\ last_backup_time' = Some(lb)
    /\ watcher_pc' = "idle"
    /\ pc' = "L151"
    /\ UNCHANGED <<backup_interval, result, now, call, arg, needed, delay,
                   wake_at, watcher_time, historyVars, scanVars>>

\* Mutant: the observer reads a clock that runs a second behind the loop's.
MutOnModifiedNowBehind ==
    /\ watcher_pc = "idle"
    /\ watcher_time' = now - 1
    /\ watcher_pc' = "L69"
    /\ UNCHANGED <<schedVars, clockVars, loopVars, historyVars, scanVars>>

\* line 68: time = datetime.datetime.now()
OnModifiedNow ==
    /\ watcher_pc = "idle"
    /\ watcher_time' = now
    /\ watcher_pc' = "L69"
    /\ UNCHANGED <<schedVars, clockVars, loopVars, historyVars, scanVars>>

\* line 69: scheduler.last_modification_time = time
OnModifiedStore ==
    /\ watcher_pc = "L69"
    /\ last_modification_time' = Some(watcher_time)
    /\ watcher_pc' = "idle"
    /\ watcher_time' = 0
    /\ mod_in_sleep' = IF /\ pc = "sleeping"
                          /\ mod_in_sleep = None
                          /\ watcher_time >= wake_at - delay
                       THEN Some(watcher_time) ELSE mod_in_sleep
    /\ mod_since_backup' = TRUE
    /\ UNCHANGED <<last_backup_time, backup_interval, result, clockVars,
                   loopVars, lm_reads, backed_up, copy_start, scanVars>>

\* The loop thread leaves everything but its own variables alone.
LoopFrame == UNCHANGED <<backup_interval, result, clockVars, watcherVars,
                         mod_in_sleep, mod_since_backup, scanVars>>

\* what the caller of updated_since_last_backup does with its answer
AfterUpdated(upd) ==
    IF upd THEN /\ pc' = "L120"
                /\ UNCHANGED <<needed, delay>>
    ELSE IF call = "needs_backup"
         THEN /\ pc' = "L151if"
              /\ needed' = FALSE
              /\ UNCHANGED delay
         ELSE /\ pc' = "L154sleep"
              /\ delay' = backup_interval
              /\ UNCHANGED needed

\* line 151: scheduler.needs_backup(datetime.datetime.now()), up to the
\* tests of lines 111 and 113
NeedsBackup111 ==
    /\ pc = "L151"
    /\ call' = "needs_backup"
    /\ arg' = now
    /\ lm_reads' = {last_modification_time}
    /\ IF no_recorded_modification(last_modification_time)
       THEN pc' = "L151if" /\ needed' = FALSE
       ELSE IF no_backup_ever(last_backup_time)
            THEN pc' = "L151if" /\ needed' = TRUE
            ELSE pc' = "L123" /\ UNCHANGED needed
    /\ UNCHANGED <<last_modification_time, last_backup_time, delay, wake_at, backed_up, copy_start>>
    /\ LoopFrame

\* updated_since_last_backup, lines 123 and 125
Updated123 ==
    /\ pc = "L123"
    /\ lm_reads' = lm_reads \cup {last_modification_time}
    /\ IF no_recorded_modification(last_modification_time)
       THEN AfterUpdated(FALSE)
       ELSE IF no_backup_ever(last_backup_time)
            THEN AfterUpdated(TRUE)
            ELSE pc' = "L127" /\ UNCHANGED <<needed, delay>>
    /\ UNCHANGED <<last_modification_time, last_backup_time, call, arg, wake_at, backed_up, copy_start>>
    /\ LoopFrame

\* updated_since_last_backup, line 127
Updated127 ==
    /\ pc = "L127"
    /\ lm_reads' = lm_reads \cup {last_modification_time}
    /\ AfterUpdated(backup_older_than_modification(last_backup_time,
                                                   last_modification_time))
    /\ UNCHANGED <<last_modification_time, last_backup_time, call, arg, wake_at, backed_up, copy_start>>
    /\ LoopFrame

\* is_safe_margin_passed_since_last_modification, line 120, and what lines
\* 116 and 136 do with its answer
SafeMargin120 ==
    /\ pc = "L120"
    /\ lm_reads' = lm_reads \cup {last_modification_time}
    /\ LET safe == is_safe_margin_passed_since_last_modification(
                       last_modification_time, arg)
       IN  IF call = "needs_backup"
           THEN pc' = "L151if" /\ needed' = safe /\ UNCHANGED delay
           ELSE IF ~safe
                THEN pc' = "L141" /\ UNCHANGED <<needed, delay>>
                ELSE pc' = "L154sleep" /\ delay' = backup_interval /\ UNCHANGED needed
    /\ UNCHANGED <<last_modification_time, last_backup_time, call, arg, wake_at, backed_up, copy_start>>
    /\ LoopFrame

\* next_check_time_after_denouncement_wait, line 141
DenouncementWait141 ==
    /\ pc = "L141"
    /\ lm_reads' = lm_reads \cup {last_modification_time}
    /\ delay' = next_check_time_after_denouncement_wait(last_modification_time, arg)
    /\ pc' = "L154sleep"
    /\ UNCHANGED <<last_modification_time, last_backup_time, call, arg, needed,
                   wake_at, backed_up, copy_start>>
    /\ LoopFrame

\* line 151: if ...
IfNeedsBackup ==
    /\ pc = "L151if"
    /\ pc' = IF needed THEN "L152" ELSE "L154"
    /\ call' = "none"
    /\ arg' = 0
    /\ needed' = FALSE
    /\ lm_reads' = {}
    /\ copy_start' = IF needed THEN Some(now) ELSE copy_start
    /\ UNCHANGED <<last_modification_time, last_backup_time, delay, wake_at, backed_up>>
    /\ LoopFrame

\* line 152: do_backup() copies the tree and returns
DoBackup ==
    /\ pc = "L152"
    /\ pc' = "L153"
    /\ UNCHANGED <<last_modification_time, last_backup_time, call, arg, needed,
                   delay, wake_at, lm_reads, backed_up, copy_start>>
    /\ LoopFrame

\* Mutant: the completion instant is not stored.
MutRecordBackupNoStore ==
    /\ pc = "L153"
    /\ backed_up' = TRUE
    /\ mod_since_backup' = FALSE
    /\ pc' = "L154"
    /\ UNCHANGED <<schedVars, clockVars, call, arg, needed, delay, wake_at,
                   watcherVars, lm_reads, copy_start, mod_in_sleep, scanVars>>

\* line 153: scheduler.last_backup_time = datetime.datetime.now()
RecordBackup ==
    /\ pc = "L153"
    /\ last_backup_time' = Some(now)
    /\ backed_up' = TRUE
    /\ mod_since_backup' = FALSE
    /\ pc' = "L154"
    /\ UNCHANGED <<last_modification_time, backup_interval, result, clockVars,
                   call, arg, needed, delay, wake_at, watcherVars, lm_reads,
                   copy_start, mod_in_sleep, scanVars>>

\* line 154: scheduler.next_check_time(datetime.datetime.now()) is entered
NextCheckTime136 ==
    /\ pc = "L154"
    /\ call' = "next_check_time"
    /\ arg' = now
    /\ lm_reads' = {}
    /\ pc' = "L123"
    /\ UNCHANGED <<last_modification_time, last_backup_time, needed, delay,
                   wake_at, backed_up, copy_start>>
    /\ LoopFrame

\* line 154: time.sleep(...total_seconds()) is entered; it raises ValueError
\* for a negative length, which ends start_auto_backup
Sleep ==
    /\ pc = "L154sleep"
    /\ IF delay < 0
       THEN pc' = "ValueError" /\ wake_at' = 0
       ELSE pc' = "sleeping" /\ wake_at' = now + delay
    /\ call' = "none"
    /\ arg' = 0
    /\ lm_reads' = {}
    /\ mod_in_sleep' = None
    /\ UNCHANGED <<schedVars, clockVars, needed, delay, watcherVars, backed_up, copy_start,
                   mod_since_backup, scanVars>>

\* time.sleep returns, not before the requested length has passed
Wake ==
    /\ pc = "sleeping"
    /\ now >= wake_at
    /\ pc' = "L151"
    /\ wake_at' = 0
    /\ delay' = 0
    /\ mod_in_sleep' = None
    /\ UNCHANGED <<schedVars, clockVars, call, arg, needed, watcherVars,
                   lm_reads, copy_start, backed_up, mod_since_backup, scanVars>>

Next ==
    \/ Tick
    \/ Startup
    \/ OnModifiedNow
    \/ OnModifiedStore
    \/ NeedsBackup111
    \/ Updated123
    \/ Updated127
    \/ SafeMargin120
    \/ DenouncementWait141
    \/ IfNeedsBackup
    \/ DoBackup
    \/ RecordBackup
    \/ NextCheckTime136
    \/ Sleep
    \/ Wake

Spec == Init /\ [][Next]_vars

(***************************************************************************)
(* The scheduler on its own: any field assignments, any queries.           *)
(***************************************************************************)
SchedInit == NewScheduler /\ NoBackupScan /\ NoChangeScan /\ NotRunning

SchedNext ==
    \E t \in Instants :
        \/ SetLastModificationTime(t)
        \/ SetLastBackupTime(t)
        \/ CallNeedsBackup(t)
        \/ CallNextCheckTime(t)

SpecSched == SchedInit /\ [][SchedNext]_vars

(***************************************************************************)
(* The scheduler against a clock: modifications and completed backups are  *)
(* recorded with the current clock reading, as on_modified and line 153    *)
(* do, and time passes.                                                    *)
(***************************************************************************)
\* lines 68-69: scheduler.last_modification_time = datetime.datetime.now()
RecordModification == SetLastModificationTime(now)

\* line 153: scheduler.last_backup_time = datetime.datetime.now()
RecordBackupExecution == SetLastBackupTime(now)

MachineNext ==
    \/ RecordModification
    \/ RecordBackupExecution
    \/ Tick

SpecMachine == SchedInit /\ [][MachineNext]_vars

(***************************************************************************)
(* The scanners on their own: a directory is drawn, then scanned.          *)
(***************************************************************************)
BackupScanSpecInit == BackupScanInit /\ NewScheduler /\ NoChangeScan /\ NotRunning

BackupScanNext == CallGetLastBackupDatetime

SpecBackupScan == BackupScanSpecInit /\ [][BackupScanNext]_vars

ChangeScanSpecInit == ChangeScanInit /\ NewScheduler /\ NoBackupScan /\ NotRunning

ChangeScanNext == CallGetLastChangeDatetime

SpecChangeScan == ChangeScanSpecInit /\ [][ChangeScanNext]_vars

(***************************************************************************)
(* Claims about the scheduler's two queries (checked under SpecSched).     *)
(***************************************************************************)
CalledNeedsBackup == result.op = "needs_backup"
CalledNextCheckTime == result.op = "next_check_time"
BothPresent == last_modification_time # None /\ last_backup_time # None
\* a modification is recorded and no backup is at or after it
Pending ==
    /\ last_modification_time # None
    /\ \/ last_backup_time = None
       \/ Val(last_backup_time) < Val(last_modification_time)

\* C1: with both instants present and last_backup strictly earlier than
\* last_modification, needs_backup(now) is true exactly when
\* last_modification + 5 seconds < now.
C1_DebounceRule ==
    (CalledNeedsBackup /\ BothPresent
        /\ Val(last_backup_time) < Val(last_modification_time))
    => (result.ret <=> Val(last_modification_time) + 5 < result.arg)

\* needs_backup asked at exactly last_modification + 5 seconds answered false
C1_Witness ==
    /\ CalledNeedsBackup /\ BothPresent
    /\ Val(last_backup_time) < Val(last_modification_time)
    /\ result.arg = Val(last_modification_time) + 5
    /\ result.ret = FALSE

\* C2: needs_backup is false for every now when last_modification is absent,
\* or both are present and last_backup is at or after last_modification.
C2_NothingPending ==
    (CalledNeedsBackup
        /\ \/ last_modification_time = None
           \/ BothPresent /\ Val(last_backup_time) >= Val(last_modification_time))
    => result.ret = FALSE

\* needs_backup asked long after a backup made at the modification instant itself
C2_Witness ==
    /\ CalledNeedsBackup /\ BothPresent
    /\ Val(last_backup_time) = Val(last_modification_time)
    /\ result.arg > Val(last_modification_time) + 5
    /\ result.ret = FALSE

\* C3: with a modification recorded and no backup ever recorded,
\* needs_backup(now) is true for every now, inside the settle window too.
C3_FirstBackupImmediate ==
    (CalledNeedsBackup /\ last_modification_time # None /\ last_backup_time = None)
    => result.ret = TRUE

\* needs_backup asked at the modification instant itself, no backup ever made
C3_Witness ==
    /\ CalledNeedsBackup /\ last_modification_time # None /\ last_backup_time = None
    /\ result.arg = Val(last_modification_time)
    /\ result.ret = TRUE

WholeNameMatches(children) == { n \in children : re_match(n) }

\* the latest of a non-empty set of datetimes
LatestDatetime(ds) == CHOOSE d \in ds : \A e \in ds : ~DatetimeLess(d, e)

\* C9: get_last_backup_datetime returns the maximum instant among the
\* children whose whole name matches ^\d{8}_\d{6}$, read as YYYYMMDD_HHMMSS,
\* ignores every other child, and returns 1980-01-01 00:00:00 when no child
\* matches (stated for the directories whose matching names denote a date).
C9_LatestBackupInstant ==
    LET matching == WholeNameMatches(backup_children) IN
    (backup_scan # NotScanned /\ \A n \in matching : StrptimeAccepts(group0(n)))
    => backup_scan =
         Returned(IF matching = {} THEN SentinelDatetime
                  ELSE LatestDatetime({ ParsedFields(group0(n)) : n \in matching }))

\* the regular files of a tree
RegularFiles(t) == { p \in DOMAIN t : t[p].kind = "file" }

\* the greatest of a non-empty set of integers
Greatest(xs) == CHOOSE x \in xs : \A y \in xs : y <= x

\* C10: get_last_change_datetime returns the maximum last-modified instant
\* over all regular files at any depth, whatever those instants are, and
\* 1980-01-01 00:00:00 when the tree holds no regular file.
C10_LatestChangeInstant ==
    LET files == RegularFiles(source_tree) IN
    change_scan # NotScanned
    => change_scan =
         Returned(IF files = {} THEN SentinelSeconds
                  ELSE Greatest({ fromtimestamp(source_tree[p].st_mtime) : p \in files }))

(***************************************************************************)
(* Claims about the running system (checked under Spec).                   *)
(***************************************************************************)
\* a backup has been completed and on_modified has stored nothing since
QuietSinceBackup == backed_up /\ ~mod_since_backup

C7_BoundedReaction ==
    (pc = "sleeping" /\ mod_in_sleep # None)
    => wake_at <= Val(mod_in_sleep) + 5

\* C8: no evaluation of needs_backup or next_check_time reads two
\* different values of last_modification_time.
C8_ConsistentReads == Cardinality(lm_reads) <= 1

(***************************************************************************)
(* Further claims about the scheduler's two queries (under SpecSched).     *)
(***************************************************************************)
\* the step is a call of one of the two queries
QueryStep == result' # NoCall

\* C11: needs_backup and next_check_time are pure: a call leaves
\* last_modification_time, last_backup_time and backup_interval as they
\* were, a call repeated with the same argument and no assignment in between
\* returns the same value, and backup_interval never changes after
\* construction.
C11_QueriesArePure ==
    [][ /\ QueryStep => /\ last_modification_time' = last_modification_time
                        /\ last_backup_time' = last_backup_time
        /\ (QueryStep /\ result # NoCall /\ result'.op = result.op
                /\ result'.arg = result.arg)
           => result'.ret = result.ret
        /\ backup_interval' = backup_interval ]_vars

\* needs_backup has answered true with both fields present, and they are
\* still there to be asked about again
C11_Witness ==
    /\ CalledNeedsBackup /\ BothPresent
    /\ result.ret = TRUE
    /\ Val(last_backup_time) < Val(last_modification_time)
    /\ result.arg = MaxTime

\* C14: as the tests of next_check_time assert, next_check_time(t) returns
\* the instant of the next check: t + backup_interval on a fresh scheduler
\* and whenever the last backup is at or after the last modification, and
\* t + 5 seconds when a modification was recorded at t and the last backup
\* is older.
C14_NextCheckInstant ==
    /\ (CalledNextCheckTime
           /\ \/ last_modification_time = None /\ last_backup_time = None
              \/ BothPresent /\ Val(last_backup_time) >= Val(last_modification_time))
       => result.ret = result.arg + backup_interval
    /\ (CalledNextCheckTime /\ BothPresent
           /\ Val(last_backup_time) < Val(last_modification_time)
           /\ Val(last_modification_time) = result.arg)
       => result.ret = result.arg + 5

\* next_check_time has been asked, inside the window of a pending change
\* with a backup on record, and has returned the remaining settle time
ReturnedRemainingSettleTime ==
    /\ CalledNextCheckTime /\ BothPresent
    /\ Val(last_backup_time) < Val(last_modification_time)
    /\ result.arg <= Val(last_modification_time) + 5

\* C16 as claimed: when next_check_time(last_checked) returns a remaining
\* settle time d and nothing is recorded in between,
\* needs_backup(last_checked + d) returns true.
C16_WakesWhenDue ==
    ReturnedRemainingSettleTime
    => needs_backup(last_modification_time, last_backup_time,
                    result.arg + result.ret)

\* C16 as amended: last_checked + d is the instant the window closes, at
\* which needs_backup still returns false and next_check_time returns 0;
\* needs_backup returns true at every later instant.
C16_WakesAtWindowEnd ==
    ReturnedRemainingSettleTime
    => LET wake == result.arg + result.ret IN
       /\ wake = Val(last_modification_time) + 5
       /\ ~needs_backup(last_modification_time, last_backup_time, wake)
       /\ next_check_time(last_modification_time, last_backup_time,
                          backup_interval, wake) = 0
       /\ \A t \in Instants :
             t > wake => needs_backup(last_modification_time, last_backup_time, t)

\* a positive remaining settle time was returned, and a check made exactly
\* that long after last_checked finds no backup needed
C16_Witness ==
    /\ ReturnedRemainingSettleTime
    /\ result.ret > 0
    /\ result.arg + result.ret < MaxTime
    /\ ~needs_backup(last_modification_time, last_backup_time,
                     result.arg + result.ret)

(***************************************************************************)
(* The scheduler as a state machine (under SpecMachine).                   *)
(***************************************************************************)
\* Idle: no pending change; Pending: a change is pending and needs_backup
\* is false; Due: needs_backup is true
Class ==
    IF needs_backup(last_modification_time, last_backup_time, now) THEN "Due"
    ELSE IF Pending THEN "Pending"
    ELSE "Idle"

\* C17 as claimed: recording modifications and backups and the passage of
\* time move the classification only from Idle to Pending when a
\* modification is recorded, from Pending to Due as time passes, and from
\* Due to Idle when a backup is recorded, or leave it unchanged.
C17_ThreeStateMachine ==
    [][ \/ Class' = Class
        \/ /\ last_modification_time' # last_modification_time
           /\ Class = "Idle" /\ Class' = "Pending"
        \/ /\ now' # now
           /\ Class = "Pending" /\ Class' = "Due"
        \/ /\ last_backup_time' # last_backup_time
           /\ Class = "Due" /\ Class' = "Idle" ]_vars

\* C17 as amended: recording a modification leads to Due when no backup
\* was ever recorded, to Pending when the last backup is earlier than the
\* recorded instant (from Idle, Pending or Due), and leaves Idle when a
\* backup was recorded at that same instant; recording a backup leads to
\* Idle from every class; the passage of time changes nothing but Pending
\* into Due.
C17_StateMachine ==
    [][ /\ last_modification_time' # last_modification_time
           => \/ last_backup_time = None /\ Class' = "Due"
              \/ /\ last_backup_time # None /\ Val(last_backup_time) < now
                 /\ Class' = "Pending"
              \/ /\ last_backup_time # None /\ Val(last_backup_time) = now
                 /\ Class = "Idle" /\ Class' = "Idle"
        /\ last_backup_time' # last_backup_time => Class' = "Idle"
        /\ now' # now
           => \/ Class' = Class
              \/ Class = "Pending" /\ Class' = "Due" ]_vars

\* a first modification has just been recorded on a scheduler with no
\* backup on record, and a backup is due at that very instant
C17_Witness ==
    /\ Class = "Due"
    /\ last_backup_time = None
    /\ Val(last_modification_time) = now

(***************************************************************************)
(* Further claims about the running system (under Spec).                   *)
(***************************************************************************)
\* C12: with a clock that never goes back and startup scans that return
\* nothing later than the clock at startup, every value written to
\* last_modification_time is at or after the value it replaces, and likewise
\* for last_backup_time, in every interleaving of the loop and the observer.
C12_InstantsNeverGoBack ==
    [][ /\ (last_modification_time # None /\ last_modification_time' # None)
           => Val(last_modification_time') >= Val(last_modification_time)
        /\ (last_backup_time # None /\ last_backup_time' # None)
           => Val(last_backup_time') >= Val(last_backup_time)
        /\ last_modification_time # None => last_modification_time' # None
        /\ last_backup_time # None => last_backup_time' # None ]_vars

\* both fields have been rewritten after startup: a backup was recorded and
\* on_modified has stored a later instant since
C12_Witness ==
    /\ backed_up /\ mod_since_backup
    /\ Val(last_backup_time) > 0
    /\ Val(last_modification_time) > Val(last_backup_time)

(***************************************************************************)
(* Further claims about the scanners.                                      *)
(***************************************************************************)
\* C13: get_last_backup_datetime returns an instant, without raising, for
\* every set of child names, those of the form 8 digits, underscore, 6
\* digits that denote no date or time of day (month 13, hour 25) included.
C13_BackupScanNeverRaises ==
    backup_scan # NotScanned => backup_scan.raised = "no"

\* C15: no recorded modification is lost.  Whenever last_backup_time is at
\* or after last_modification_time, so that needs_backup finds nothing to
\* do, the copy whose completion set that last_backup_time was started at or
\* after the instant held in last_modification_time; a modification
\* recorded while a copy runs is still pending once the completion instant
\* is recorded.
C15_NoModificationLost ==
    (backed_up /\ pc \notin {"L152", "L153"}
        /\ Val(last_backup_time) >= Val(last_modification_time))
    => Val(copy_start) >= Val(last_modification_time)

C19_Linearizable ==
    /\ pc = "L151if"
       => \E m \in lm_reads :
             needed = needs_backup(m, last_backup_time, arg)
    /\ pc = "L154sleep"
       => \E m \in lm_reads :
             delay = next_check_time(m, last_backup_time, backup_interval, arg)

\* needs_backup has returned from an evaluation during which on_modified
\* stored, and the values it read do not all give the same answer
C19_Witness ==
    /\ pc = "L151if"
    /\ \E m1 \in lm_reads, m2 \in lm_reads :
          needs_backup(m1, last_backup_time, arg)
              # needs_backup(m2, last_backup_time, arg)

\* C20: in the running system neither instant is ever absent, both being
\* seeded before the observer and the loop start; so needs_backup returns
\* true to the loop only through the settle-window branch (last_backup_time
\* earlier than last_modification_time and last_modification_time + 5
\* seconds earlier than now), the very first backup into an empty backup
\* directory included, and returns false when both scans gave the sentinel.
C20_BothSeeded ==
    /\ pc # "L145" => BothPresent
    /\ (pc = "L151if" /\ needed)
       => \E m \in lm_reads :
             /\ m # None
             /\ Val(last_backup_time) < Val(m)
             /\ Val(m) + 5 < arg
    /\ (pc = "L151if" /\ ~backed_up
           /\ last_modification_time = Some(SeedSentinel)
           /\ last_backup_time = Some(SeedSentinel))
       => ~needed

\* the first backup into an empty backup directory has been found due, more
\* than 5 seconds after the latest change the loop knows of
C20_Witness ==
    /\ pc = "L151if" /\ needed /\ ~backed_up
    /\ last_backup_time = Some(SeedSentinel)
    /\ Val(last_modification_time) + 5 < arg

=============================================================================
